---------------------------- MODULE Spec2Model ----------------------------
(***************************************************************************)
(* Dense Tick Format (DTF) codec, src/src/dtf.rs.                          *)
(*                                                                         *)
(* A file is a sequence of bytes.  Updates are records whose price and     *)
(* size fields hold the 32-bit pattern of the f32 (the codec only moves    *)
(* the bits): the 4 big-endian bytes of the f32.  A u32 timestamp is held  *)
(* as its two 16-bit halves [hi, lo], so that every value of the type has  *)
(* a representation and the arithmetic below is exact at the type's edge.  *)
(* A panic of the Rust code is the status "panic" of the call.             *)
(* Integer arithmetic keeps the width of the Rust type: with overflow      *)
(* checks on (the debug profile) an overflowing +, - panics, with the      *)
(* checks off (the release profile) it wraps.  Which profile the crate is  *)
(* built with is not fixed by the source, so it is chosen in Init.         *)
(* A panic unwinds; the BufWriter dropped while unwinding flushes what it  *)
(* buffered (std's Drop for BufWriter).                                    *)
(***************************************************************************)
EXTENDS Integers, Sequences, FiniteSets, TLC

VARIABLES
    checked,   \* TRUE: overflow checks on (debug), FALSE: wrapping (release)
    file,      \* the file at the path: [exists, bytes]
    stored,    \* the vector the caller handed to the last encode call
    sym,       \* the symbol handed to the last encode call
    wrote,     \* "ok" or "panic": how the last encode call ended ("none": no call yet)
    arg,       \* the last append call: [called, ok, ups], ups as the call left it
    op,        \* the last call
    status,    \* "ok" or "panic": how the last call ended
    ret,       \* what the last call returned
    rdr,       \* the open BufReader: [open, pos, prev], prev the read before
    enc        \* write_main's locals while it runs step by step

vars == <<checked, file, stored, sym, wrote, arg, op, status, ret, rdr, enc>>

-----------------------------------------------------------------------------
(* Program constants *)

MAGIC_VALUE == <<68, 84, 70, 144, 1>>
SYMBOL_LEN == 9
SYMBOL_OFFSET == 5
LEN_OFFSET == 14
MAX_TS_OFFSET == 22
MAIN_OFFSET == 80
TS_SPAN == 65535
SEQ_SPAN == 255
U8 == 256
U16 == 65536
SPACE == 32

-----------------------------------------------------------------------------
(* Bounds and the inputs the calls are tried on *)

MaxLen == 2

\* the u32 n, for n below 2^31
TS(n) == [hi |-> n \div 65536, lo |-> n % 65536]

\* u32::MAX
MaxTs == [hi |-> 65535, lo |-> 65535]

\* the payloads of the test's updates t, t2 and t1: the f32 bits of
\* 5100.01, 1.14564564645, 1.123465 and 2.14564564645
P1 == [is_trade |-> FALSE, is_bid |-> FALSE,
       price |-> <<69, 159, 96, 20>>, size |-> <<63, 146, 164, 132>>]
P2 == [is_trade |-> TRUE, is_bid |-> FALSE,
       price |-> <<69, 159, 96, 20>>, size |-> <<63, 143, 205, 179>>]
P3 == [is_trade |-> FALSE, is_bid |-> FALSE,
       price |-> <<69, 159, 96, 20>>, size |-> <<64, 9, 82, 66>>]
\* a bid: no test has one, the is_bid field of Update set
P4 == [is_trade |-> FALSE, is_bid |-> TRUE,
       price |-> <<69, 159, 96, 20>>, size |-> <<64, 9, 82, 66>>]

Upd(t, s, p) ==
    [ts |-> t, seq |-> s, is_trade |-> p.is_trade, is_bid |-> p.is_bid,
     price |-> p.price, size |-> p.size]

\* 100/113 and 101/113 are the test's first two updates; 65634/367 is the
\* last update that fits under the reference 100/113; 65635 and 368 are the
\* first timestamp and sequence that do not; 65281 is the first sequence
\* whose + 255 leaves u16; 4294967295 is a timestamp whose + 65535 leaves u32.
Updates ==
    { Upd(TS(100), 113, P1), Upd(TS(101), 113, P2), Upd(TS(65634), 367, P3),
      Upd(TS(65635), 367, P2), Upd(TS(65634), 368, P1), Upd(TS(65636), 65281, P2),
      Upd(MaxTs, 65282, P4) }

SeqsUpTo(S, n) == UNION { [1..k -> S] : k \in 0..n }

Inputs == SeqsUpTo(Updates, MaxLen)

NEO_BTC == <<78, 69, 79, 95, 66, 84, 67>>
NEO_BTC_US == <<78, 69, 79, 95, 66, 84, 67, 95, 85, 83>>
\* the UTF-8 bytes of a symbol of one character that takes two bytes
E_ACUTE == <<195, 169>>
Symbols == { NEO_BTC, NEO_BTC_US, E_ACUTE }

-----------------------------------------------------------------------------
(* Bytes *)

RECURSIVE BE(_, _)
\* write_uN::<BigEndian>: the w bytes of n, most significant first
BE(n, w) == IF w = 0 THEN <<>> ELSE Append(BE(n \div 256, w - 1), n % 256)

RECURSIVE FromBE(_)
\* read_uN::<BigEndian>
FromBE(bs) ==
    IF bs = <<>> THEN 0
    ELSE FromBE(SubSeq(bs, 1, Len(bs) - 1)) * 256 + bs[Len(bs)]

Zeros(n) == [i \in 1..n |-> 0]

\* u32 values as halves: order, big-endian bytes, and + of a u16 amount
Lt32(a, b) == a.hi < b.hi \/ (a.hi = b.hi /\ a.lo < b.lo)

Le32(a, b) == ~Lt32(b, a)

BE32(a) == BE(a.hi, 2) \o BE(a.lo, 2)

FromBE32(bs) == [hi |-> FromBE(SubSeq(bs, 1, 2)), lo |-> FromBE(SubSeq(bs, 3, 4))]

\* a + n in u32, n < 2^16: [ovf, val], val the wrapped sum
Add32(a, n) ==
    LET lo == a.lo + n
        hi == a.hi + lo \div U16
    IN  [ovf |-> hi >= U16, val |-> [hi |-> hi % U16, lo |-> lo % U16]]

\* (a - b) as u16 of the wrapping u32 difference: its low 16 bits
Sub32Low16(a, b) == (a.lo - b.lo) % U16

BoolByte(b) == IF b THEN 1 ELSE 0

\* the n bytes at offset pos (0-based) of bs; only called when they exist
Slice(bs, pos, n) == SubSeq(bs, pos + 1, pos + n)

\* read_exact's outcome: are there n bytes at offset pos
CanRead(bs, pos, n) == pos + n <= Len(bs)

-----------------------------------------------------------------------------
(* Update: ordering, serialize *)

\* Ord for Update compares the sequence number alone
Less(a, b) == a.seq < b.seq

RECURSIVE InsertSorted(_, _)
InsertSorted(s, u) ==
    IF s = <<>> THEN <<u>>
    ELSE IF Less(u, s[Len(s)])
         THEN Append(InsertSorted(SubSeq(s, 1, Len(s) - 1), u), s[Len(s)])
         ELSE Append(s, u)

RECURSIVE Sort(_)
\* Vec::sort: stable, by Ord
Sort(s) ==
    IF s = <<>> THEN <<>>
    ELSE InsertSorted(Sort(SubSeq(s, 1, Len(s) - 1)), s[Len(s)])

\* Update::serialize: the delta record without its flag byte, as fields.
\* ok = FALSE: a subtraction underflowed with overflow checks on.
serialize(u, ref_ts, ref_seq, chk) ==
    [ok |-> ~(chk /\ (Lt32(u.ts, ref_ts) \/ u.seq < ref_seq)),
     dts |-> Sub32Low16(u.ts, ref_ts),
     dseq |-> ((u.seq - ref_seq) % U16) % U8,
     is_trade |-> BoolByte(u.is_trade),
     is_bid |-> BoolByte(u.is_bid),
     price |-> u.price,
     size |-> u.size]

\* the 14 bytes of one delta record: the flag byte, then serialize's 13 bytes
RecBytes(r) ==
    <<0>> \o BE(r.dts, 2) \o <<r.dseq, r.is_trade, r.is_bid>>
          \o r.price \o r.size

\* a get_max_ts that takes the timestamp of the last update in sequence order
get_max_ts_last(ups) == IF ups = <<>> THEN TS(0) ELSE ups[Len(ups)].ts

RECURSIVE get_max_ts(_)
\* get_max_ts: max starts at 0 and is raised by every larger ts
get_max_ts(ups) ==
    IF ups = <<>> THEN TS(0)
    ELSE LET max == get_max_ts(SubSeq(ups, 1, Len(ups) - 1))
             current == ups[Len(ups)].ts
         IN  IF Lt32(max, current) THEN current ELSE max

-----------------------------------------------------------------------------
(* Batch encoder *)

(***************************************************************************)
(* buf, the pending Vec<u8> of write_main, is held as the sequence of the  *)
(* delta records pushed to it, run-length encoded: a run [rec, n] stands   *)
(* for n consecutive copies of the 14 bytes of rec.  BufBytes gives the    *)
(* bytes back.                                                             *)
(***************************************************************************)
PushRec(buf, r) ==
    IF buf # <<>> /\ buf[Len(buf)].rec = r
    THEN [buf EXCEPT ![Len(buf)].n = @ + 1]
    ELSE Append(buf, [rec |-> r, n |-> 1])

RECURSIVE RecCount(_)
\* how many delta records buf holds
RecCount(buf) ==
    IF buf = <<>> THEN 0
    ELSE RecCount(SubSeq(buf, 1, Len(buf) - 1)) + buf[Len(buf)].n

RECURSIVE Repeat(_, _)
Repeat(bs, n) == IF n = 0 THEN <<>> ELSE bs \o Repeat(bs, n - 1)

RECURSIVE BufBytes(_)
BufBytes(buf) ==
    IF buf = <<>> THEN <<>>
    ELSE BufBytes(SubSeq(buf, 1, Len(buf) - 1))
         \o Repeat(RecBytes(buf[Len(buf)].rec), buf[Len(buf)].n)

\* write_reference: flag 1, ref_ts, ref_seq, len
write_reference(ref_ts, ref_seq, len) ==
    <<1>> \o BE32(ref_ts) \o BE(ref_seq, 2) \o BE(len, 2)

\* one flush of write_main (lines 146-147, 162-163): the reference with the
\* u16 count, then the pending buffer
Flushed(st) ==
    [ref_ts |-> st.ref_ts, ref_seq |-> st.ref_seq, len |-> st.count, recs |-> st.buf]

BatchBytes(b) == write_reference(b.ref_ts, b.ref_seq, b.len) \o BufBytes(b.recs)

RECURSIVE MainBytes(_)
\* the bytes the flushes put into the writer, in order
MainBytes(out) ==
    IF out = <<>> THEN <<>>
    ELSE MainBytes(SubSeq(out, 1, Len(out) - 1)) \o BatchBytes(out[Len(out)])

\* write_main's locals after lines 136-142; ups[0] panics on an empty slice
MainStart(ups) ==
    IF ups = <<>>
    THEN [ok |-> FALSE, ref_ts |-> TS(0), ref_seq |-> 0, count |-> 0,
          buf |-> <<>>, out |-> <<>>]
    ELSE [ok |-> TRUE, ref_ts |-> ups[1].ts, ref_seq |-> ups[1].seq, count |-> 0,
          buf |-> <<>>, out |-> <<>>]

\* line 145 as Rust parses it: (count != 0 && ts >= ref_ts + 65535) || seq >= ref_seq + 255,
\* with && and || short-circuiting and the sums in u32 and u16.
\* left: the && part; panics: a sum that is evaluated overflows with checks on.
CondLeft(st, elem) ==
    st.count # 0 /\ Le32(Add32(st.ref_ts, TS_SPAN).val, elem.ts)

CondRight(st, elem) == elem.seq >= (st.ref_seq + SEQ_SPAN) % U16

CondPanics(st, elem, chk) ==
    /\ chk
    /\ \/ st.count # 0 /\ Add32(st.ref_ts, TS_SPAN).ovf
       \/ ~CondLeft(st, elem) /\ st.ref_seq + SEQ_SPAN >= U16

NewBatch(st, elem) == CondLeft(st, elem) \/ CondRight(st, elem)

\* lines 146-152
StartBatch(st, elem) ==
    [st EXCEPT !.out = Append(@, Flushed(st)), !.buf = <<>>,
               !.ref_ts = elem.ts, !.ref_seq = elem.seq, !.count = 0]

\* the body of the for loop, lines 145-159
LoopBody(st, elem, chk) ==
    IF CondPanics(st, elem, chk) THEN [st EXCEPT !.ok = FALSE]
    ELSE LET s1 == IF NewBatch(st, elem) THEN StartBatch(st, elem) ELSE st
             r  == serialize(elem, s1.ref_ts, s1.ref_seq, chk)
         IN  IF ~r.ok THEN [s1 EXCEPT !.ok = FALSE]
             ELSE IF chk /\ s1.count + 1 >= U16
                  THEN [s1 EXCEPT !.ok = FALSE,
                                  !.buf = PushRec(@, [f \in DOMAIN r \ {"ok"} |-> r[f]])]
                  ELSE [s1 EXCEPT !.buf = PushRec(@, [f \in DOMAIN r \ {"ok"} |-> r[f]]),
                                  !.count = (@ + 1) % U16]

\* lines 162-163
MainFinish(st) == [st EXCEPT !.out = Append(@, Flushed(st)), !.buf = <<>>]

RECURSIVE MainLoop(_, _, _, _)
MainLoop(st, ups, i, chk) ==
    IF ~st.ok \/ i > Len(ups) THEN st
    ELSE MainLoop(LoopBody(st, ups[i], chk), ups, i + 1, chk)

\* write_main: [ok, out]; out holds the batches that reached the writer
write_main(ups, chk) ==
    LET st == MainLoop(MainStart(ups), ups, 1, chk)
    IN  IF st.ok THEN MainFinish(st) ELSE st

\* str::chars().count() of a &str given by its UTF-8 bytes: every byte but
\* the continuation bytes 10xxxxxx starts a character
CharCount(s) == Cardinality({ i \in 1..Len(s) : s[i] \notin 128..191 })

\* format!("{:width$}", symbol, width = SYMBOL_LEN): the symbol right-padded
\* with spaces to SYMBOL_LEN characters (not bytes); a symbol of that many
\* characters or more is left as it is
PaddedSymbol(s) ==
    s \o [i \in 1..(IF CharCount(s) < SYMBOL_LEN THEN SYMBOL_LEN - CharCount(s)
                     ELSE 0) |-> SPACE]

\* write_symbol: [ok, bytes]; the two assertions are on byte lengths
write_symbol(s) ==
    IF Len(s) > SYMBOL_LEN \/ Len(PaddedSymbol(s)) # SYMBOL_LEN
    THEN [ok |-> FALSE, bytes |-> <<>>]
    ELSE [ok |-> TRUE, bytes |-> PaddedSymbol(s)]

\* write_metadata: the record count as u64, get_max_ts as u32
write_metadata(ups) == BE(Len(ups), 8) \o BE32(get_max_ts(ups))

\* encode: [ok, bytes]: how the call ended and the bytes of the file it
\* leaves.  File::create truncates; a panic in write_symbol leaves the magic
\* value; the seek of write_main flushes the 26 header bytes; the batches
\* land at MAIN_OFFSET, the gap reading as zeros.
encode(symbol, ups, chk) ==
    IF ~write_symbol(symbol).ok THEN [ok |-> FALSE, bytes |-> MAGIC_VALUE]
    ELSE LET head == MAGIC_VALUE \o write_symbol(symbol).bytes \o write_metadata(ups)
             m    == write_main(ups, chk)
             main == MainBytes(m.out)
         IN  [ok |-> m.ok,
              bytes |-> IF main = <<>> THEN head
                        ELSE head \o Zeros(MAIN_OFFSET - Len(head)) \o main]

-----------------------------------------------------------------------------
(* Header reads and batch decoder.  A reader is [open, pos]; every read     *)
(* gives [ok, val, pos]: ok = FALSE is a panic (expect, unwrap, assert).    *)

\* file_reader: File::open, then the 5 magic bytes; what read_exact could not
\* fill stays 0
file_reader(f) ==
    LET got == IF CanRead(f.bytes, 0, 5) THEN Slice(f.bytes, 0, 5)
               ELSE f.bytes \o Zeros(5 - Len(f.bytes))
    IN  [ok |-> f.exists /\ got = MAGIC_VALUE, val |-> <<>>, pos |-> 5]

Cont(bs, i) == i <= Len(bs) /\ bs[i] \in 128..191

RECURSIVE Utf8From(_, _)
\* str::from_utf8 from index i on: is the rest well-formed UTF-8 (no overlong
\* form, no surrogate, nothing above U+10FFFF, no cut sequence)
Utf8From(bs, i) ==
    IF i > Len(bs) THEN TRUE
    ELSE LET b == bs[i]
             n == i + 1
         IN  IF b < 128 THEN Utf8From(bs, n)
             ELSE IF b \in 194..223
                  THEN Cont(bs, n) /\ Utf8From(bs, i + 2)
             ELSE IF b \in 224..239
                  THEN /\ Cont(bs, n) /\ Cont(bs, i + 2)
                       /\ (b = 224 => bs[n] >= 160)
                       /\ (b = 237 => bs[n] <= 159)
                       /\ Utf8From(bs, i + 3)
             ELSE IF b \in 240..244
                  THEN /\ Cont(bs, n) /\ Cont(bs, i + 2) /\ Cont(bs, i + 3)
                       /\ (b = 240 => bs[n] >= 144)
                       /\ (b = 244 => bs[n] <= 143)
                       /\ Utf8From(bs, i + 4)
             ELSE FALSE

\* read_symbol: seek to SYMBOL_OFFSET, 9 bytes; a short read is ignored;
\* str::from_utf8(..).unwrap() panics on bytes that are not UTF-8
read_symbol(bs, r) ==
    LET pos == SYMBOL_OFFSET
        have == IF Len(bs) - pos >= SYMBOL_LEN THEN SYMBOL_LEN
                ELSE IF Len(bs) > pos THEN Len(bs) - pos ELSE 0
        buffer == Slice(bs, pos, have) \o Zeros(SYMBOL_LEN - have)
    IN  IF Utf8From(buffer, 1)
        THEN [ok |-> TRUE, val |-> buffer, pos |-> pos + have]
        ELSE [ok |-> FALSE, val |-> <<>>, pos |-> pos + have]

\* read_len: seek to LEN_OFFSET, u64
read_len(bs, r) ==
    LET pos == LEN_OFFSET
    IN  IF CanRead(bs, pos, 8)
        THEN [ok |-> TRUE, val |-> <<FromBE(Slice(bs, pos, 8))>>, pos |-> pos + 8]
        ELSE [ok |-> FALSE, val |-> <<>>, pos |-> pos]

\* read_max_ts: seek to MAX_TS_OFFSET, u32
read_max_ts(bs, r) ==
    LET pos == MAX_TS_OFFSET
    IN  IF CanRead(bs, pos, 4)
        THEN [ok |-> TRUE, val |-> <<FromBE32(Slice(bs, pos, 4))>>, pos |-> pos + 4]
        ELSE [ok |-> FALSE, val |-> <<>>, pos |-> pos]

\* one delta record at pos under the reference (lines 231-239): the flag
\* must be 0, the two sums are in u32 and u16
ReadDelta(bs, pos, ref_ts, ref_seq, chk) ==
    IF ~CanRead(bs, pos, 14) \/ bs[pos + 1] # 0
    THEN [ok |-> FALSE]
    ELSE LET dts  == FromBE(Slice(bs, pos + 1, 2))
             dseq == bs[pos + 4]
         IN  [ok |-> ~(chk /\ (Add32(ref_ts, dts).ovf \/ dseq + ref_seq >= U16)),
              u |-> [ts |-> Add32(ref_ts, dts).val,
                     seq |-> (dseq + ref_seq) % U16,
                     is_trade |-> bs[pos + 5] = 1,
                     is_bid |-> bs[pos + 6] = 1,
                     price |-> Slice(bs, pos + 6, 4),
                     size |-> Slice(bs, pos + 10, 4)]]

RECURSIVE ReadDeltas(_, _, _, _, _, _, _)
\* the for loop of read_one_batch
ReadDeltas(bs, pos, how_many, ref_ts, ref_seq, chk, v) ==
    IF how_many = 0 THEN [ok |-> TRUE, val |-> v, pos |-> pos]
    ELSE LET d == ReadDelta(bs, pos, ref_ts, ref_seq, chk)
         IN  IF ~d.ok THEN [ok |-> FALSE, val |-> <<>>, pos |-> pos]
             ELSE ReadDeltas(bs, pos + 14, how_many - 1, ref_ts, ref_seq, chk,
                             Append(v, d.u))

\* read_one_batch at pos
read_one_batch(bs, pos, chk) ==
    IF ~CanRead(bs, pos, 1) THEN [ok |-> FALSE, val |-> <<>>, pos |-> pos]
    ELSE IF bs[pos + 1] # 1 THEN [ok |-> TRUE, val |-> <<>>, pos |-> pos + 1]
    ELSE IF ~CanRead(bs, pos + 1, 8) THEN [ok |-> FALSE, val |-> <<>>, pos |-> pos + 1]
    ELSE ReadDeltas(bs, pos + 9, FromBE(Slice(bs, pos + 7, 2)),
                    FromBE32(Slice(bs, pos + 1, 4)), FromBE(Slice(bs, pos + 5, 2)),
                    chk, <<>>)

\* read_first: seek to MAIN_OFFSET, one batch, batch[0]
read_first(bs, r, chk) ==
    LET b == read_one_batch(bs, MAIN_OFFSET, chk)
    IN  IF b.ok /\ b.val # <<>>
        THEN [ok |-> TRUE, val |-> <<b.val[1]>>, pos |-> b.pos]
        ELSE [ok |-> FALSE, val |-> <<>>, pos |-> b.pos]

RECURSIVE DecodeScanLenient(_, _, _, _)
\* a scan that takes a batch it cannot read whole as the end of the data
DecodeScanLenient(bs, pos, v, chk) ==
    IF ~CanRead(bs, pos, 1) THEN [ok |-> TRUE, val |-> v]
    ELSE IF bs[pos + 1] = 1
         THEN LET b == read_one_batch(bs, pos, chk)
              IN  IF ~b.ok THEN [ok |-> TRUE, val |-> v]
                  ELSE DecodeScanLenient(bs, b.pos, v \o b.val, chk)
         ELSE DecodeScanLenient(bs, pos + 1, v, chk)

RECURSIVE DecodeScan(_, _, _, _)
\* the while let loop of decode: a flag byte that cannot be read ends the
\* scan, a flag of 1 is unread and the batch read, any other byte is skipped
DecodeScan(bs, pos, v, chk) ==
    IF ~CanRead(bs, pos, 1) THEN [ok |-> TRUE, val |-> v]
    ELSE IF bs[pos + 1] = 1
         THEN LET b == read_one_batch(bs, pos, chk)
              IN  IF ~b.ok THEN [ok |-> FALSE, val |-> <<>>]
                  ELSE DecodeScan(bs, b.pos, v \o b.val, chk)
         ELSE DecodeScan(bs, pos + 1, v, chk)

\* decode: [ok, val]
decode(f, chk) ==
    LET r0 == file_reader(f)
    IN  IF \/ ~r0.ok
           \/ ~read_symbol(f.bytes, r0).ok
           \/ ~read_len(f.bytes, r0).ok
           \/ ~read_max_ts(f.bytes, r0).ok
        THEN [ok |-> FALSE, val |-> <<>>]
        ELSE DecodeScan(f.bytes, MAIN_OFFSET, <<>>, chk)

\* append: [ok, ups]: how the call ended and the caller's vector after it
\* (a panic in the reads comes before ups.sort() and leaves it as it was).
\* The max_ts read from the header is shadowed by read_min_ts (lines 282-283);
\* nothing is written.
append(f, ups, chk) ==
    LET r0 == file_reader(f)
        max_ts == read_first(f.bytes, r0, chk)
        sorted == Sort(ups)
    IN  IF \/ ~r0.ok
           \/ ~read_symbol(f.bytes, r0).ok
           \/ ~read_max_ts(f.bytes, r0).ok
           \/ ~max_ts.ok
        THEN [ok |-> FALSE, ups |-> ups]
        ELSE IF sorted = <<>> THEN [ok |-> FALSE, ups |-> sorted]
        ELSE LET new_min == sorted[1].ts
                 new_max == sorted[Len(sorted)].ts
             IN  [ok |-> ~Le32(new_min, max_ts.val[1].ts), ups |-> sorted]

-----------------------------------------------------------------------------
(* The calls on one path *)

NoFile == [exists |-> FALSE, bytes |-> <<>>]
Closed == [open |-> FALSE, pos |-> 0, prev |-> "none"]
NoAppend == [called |-> FALSE, ok |-> FALSE, ups |-> <<>>]
Idle == [pc |-> "idle"]
St(b) == IF b THEN "ok" ELSE "panic"

Init ==
    /\ checked \in BOOLEAN
    /\ file = NoFile
    /\ stored = <<>>
    /\ sym = <<>>
    /\ wrote = "none"
    /\ arg = NoAppend
    /\ op = "none"
    /\ status = "ok"
    /\ ret = <<>>
    /\ rdr = Closed
    /\ enc = Idle

\* encode(path, symbol, ups)
Encode ==
    /\ ~rdr.open
    /\ \E s \in Symbols, u \in Inputs :
          LET e == encode(s, u, checked)
          IN  /\ file' = [exists |-> TRUE, bytes |-> e.bytes]
              /\ stored' = u
              /\ sym' = s
              /\ wrote' = St(e.ok)
              /\ status' = St(e.ok)
    /\ op' = "encode"
    /\ arg' = NoAppend
    /\ ret' = <<>>
    /\ UNCHANGED <<checked, rdr, enc>>

\* encode to a path that holds no file yet
Create == ~file.exists /\ Encode

\* decode(path)
Decode ==
    /\ ~rdr.open
    /\ LET d == decode(file, checked)
       IN  /\ status' = St(d.ok)
           /\ ret' = d.val
    /\ op' = "decode"
    /\ UNCHANGED <<checked, file, stored, sym, wrote, arg, rdr, enc>>

\* append(path, ups): the file is only read; the caller's vector is sorted
AppendCall ==
    /\ ~rdr.open
    /\ \E u \in Inputs :
          LET a == append(file, u, checked)
          IN  /\ status' = St(a.ok)
              /\ arg' = [called |-> TRUE, ok |-> a.ok, ups |-> a.ups]
    /\ op' = "append"
    /\ ret' = <<>>
    /\ UNCHANGED <<checked, file, stored, sym, wrote, rdr, enc>>

\* let mut rdr = file_reader(path)
Open ==
    /\ ~rdr.open
    /\ LET r == file_reader(file)
       IN  /\ status' = St(r.ok)
           /\ rdr' = IF r.ok THEN [open |-> TRUE, pos |-> r.pos, prev |-> "file_reader"]
                     ELSE Closed
    /\ op' = "file_reader"
    /\ ret' = <<>>
    /\ UNCHANGED <<checked, file, stored, sym, wrote, arg, enc>>

\* a read on the open reader; a panic drops the reader
Read(name, r) ==
    /\ status' = St(r.ok)
    /\ ret' = r.val
    /\ rdr' = IF r.ok THEN [open |-> TRUE, pos |-> r.pos, prev |-> op] ELSE Closed
    /\ op' = name
    /\ UNCHANGED <<checked, file, stored, sym, wrote, arg, enc>>

ReadSymbol == rdr.open /\ Read("read_symbol", read_symbol(file.bytes, rdr))

ReadLen == rdr.open /\ Read("read_len", read_len(file.bytes, rdr))

ReadMaxTs == rdr.open /\ Read("read_max_ts", read_max_ts(file.bytes, rdr))

ReadFirst == rdr.open /\ Read("read_first", read_first(file.bytes, rdr, checked))

\* the reader goes out of scope
Close ==
    /\ rdr.open
    /\ rdr' = Closed
    /\ op' = "close"
    /\ status' = "ok"
    /\ ret' = <<>>
    /\ UNCHANGED <<checked, file, stored, sym, wrote, arg, enc>>

\* not a call of the codec: the file is cut short somewhere in its main
\* section (a torn or truncated file, as decode may be handed)
Truncate ==
    /\ ~rdr.open
    /\ file.exists
    /\ \E n \in MAIN_OFFSET..(Len(file.bytes) - 1) :
          file' = [exists |-> TRUE, bytes |-> SubSeq(file.bytes, 1, n)]
    /\ op' = "truncate"
    /\ status' = "ok"
    /\ ret' = <<>>
    /\ UNCHANGED <<checked, stored, sym, wrote, arg, rdr, enc>>

\* a file is written once, then read through one reader or decoded
Next ==
    \/ Create
    \/ Decode
    \/ Open
    \/ ReadSymbol
    \/ ReadLen
    \/ ReadMaxTs
    \/ ReadFirst
    \/ Close

Spec == Init /\ [][Next]_vars

\* encode calls over whatever the path holds
NextOverwrite == Encode \/ Decode

SpecOverwrite == Init /\ [][NextOverwrite]_vars

\* a file is written once, then appended to and decoded
NextAppend == Create \/ AppendCall \/ Decode

SpecAppend == Init /\ [][NextAppend]_vars

\* a file is written once, then cut and decoded
NextCut == Create \/ Truncate \/ Decode

SpecCut == Init /\ [][NextCut]_vars

-----------------------------------------------------------------------------
(* write_main step by step: one action per iteration of its for loop.  The  *)
(* slice it is given is a script of runs [u, n], n copies of the update u.  *)

MaxRun == 65536

Run(u, n) == [u |-> u, n |-> n]

ShortScripts ==
    LET R == { Run(u, n) : u \in Updates, n \in 1..2 }
    IN  {<<>>} \cup { <<r>> : r \in R } \cup { <<r, Run(u, 1)>> : r \in R, u \in Updates }

\* MaxRun copies of the test's first update, alone or followed by one update
\* of the same batch range in sequence and 65535 later in time
LongScripts ==
    { <<Run(Upd(TS(100), 113, P1), MaxRun)>>,
      <<Run(Upd(TS(100), 113, P1), MaxRun), Run(Upd(TS(65635), 367, P2), 1)>> }

Scripts == ShortScripts \cup LongScripts

RECURSIVE ScriptLen(_)
ScriptLen(sc) ==
    IF sc = <<>> THEN 0 ELSE ScriptLen(SubSeq(sc, 1, Len(sc) - 1)) + sc[Len(sc)].n

\* lines 136-142
EncStart ==
    /\ enc.pc = "idle"
    /\ \E sc \in Scripts :
          LET st == MainStart(IF sc = <<>> THEN <<>> ELSE <<sc[1].u>>)
          IN  enc' = [pc |-> IF st.ok THEN "loop" ELSE "panic",
                      script |-> sc, r |-> 1, k |-> 1, done |-> 0, st |-> st,
                      elem |-> <<>>]
    /\ UNCHANGED <<checked, file, stored, sym, wrote, arg, op, status, ret, rdr>>

\* one iteration of the for loop, lines 144-160
EncIter ==
    /\ enc.pc = "loop"
    /\ enc.r <= Len(enc.script)
    /\ LET elem == enc.script[enc.r].u
           st   == LoopBody(enc.st, elem, checked)
           last == enc.k = enc.script[enc.r].n
       IN  enc' = [enc EXCEPT !.pc = IF st.ok THEN "loop" ELSE "panic",
                              !.st = st,
                              !.elem = <<elem>>,
                              !.done = IF st.ok THEN @ + 1 ELSE @,
                              !.r = IF last THEN @ + 1 ELSE @,
                              !.k = IF last THEN 1 ELSE @ + 1]
    /\ UNCHANGED <<checked, file, stored, sym, wrote, arg, op, status, ret, rdr>>

\* lines 162-163
EncFinish ==
    /\ enc.pc = "loop"
    /\ enc.r > Len(enc.script)
    /\ enc' = [enc EXCEPT !.pc = "done", !.st = MainFinish(enc.st)]
    /\ UNCHANGED <<checked, file, stored, sym, wrote, arg, op, status, ret, rdr>>

NextEnc == EncStart \/ EncIter \/ EncFinish

SpecEnc == Init /\ [][NextEnc]_vars

-----------------------------------------------------------------------------
(* Properties *)

Sorted(ups) == \A i, j \in DOMAIN ups : i < j => ups[i].seq <= ups[j].seq

StrictSeq(ups) == \A i, j \in DOMAIN ups : i < j => ups[i].seq < ups[j].seq

NonDecTs(ups) == \A i, j \in DOMAIN ups : i < j => Le32(ups[i].ts, ups[j].ts)

\* t - ref as an integer lies in 0..(span - 1), span at most 2^16
Within(t, ref, span) ==
    /\ t.hi - ref.hi \in {0, 1}
    /\ (t.hi - ref.hi) * U16 + t.lo - ref.lo \in 0..(span - 1)

\* C1: encode of a non-empty input with strictly increasing sequence numbers
\* and non-decreasing timestamps succeeds, and decode then returns the input.
C1_RoundTrip ==
    (op = "decode" /\ Len(sym) <= SYMBOL_LEN /\ stored # <<>>
        /\ StrictSeq(stored) /\ NonDecTs(stored))
    => (wrote = "ok" /\ status = "ok" /\ ret = stored)

\* C3: after a successful encode, read_len returns the number of input
\* updates and read_max_ts returns the largest timestamp among them, whatever
\* was read on the reader before.
C3_HeaderIntegrity ==
    wrote = "ok" =>
       /\ op = "read_len" => (status = "ok" /\ ret = <<Len(stored)>>)
       /\ op = "read_max_ts" =>
             /\ status = "ok"
             /\ \E i \in DOMAIN stored : stored[i].ts = ret[1]
             /\ \A i \in DOMAIN stored : Le32(stored[i].ts, ret[1])

\* the max timestamp is read after the main section was read on the same
\* reader, and it is the first update's, not the last one's
C3_Witness ==
    /\ wrote = "ok"
    /\ op = "read_max_ts"
    /\ status = "ok"
    /\ rdr.prev = "read_first"
    /\ Len(stored) = 2
    /\ Lt32(stored[2].ts, stored[1].ts)
    /\ ret = <<stored[1].ts>>

\* C4: on a file encode produced from a non-empty sorted input, read_first
\* succeeds and returns the first element of the input.
C4_FirstRecord ==
    (op = "read_first" /\ wrote = "ok" /\ stored # <<>> /\ Sorted(stored))
    => (status = "ok" /\ ret = <<stored[1]>>)

\* C5: append fails whenever some new update's timestamp is not strictly
\* greater than the max timestamp in the header of the existing file.
C5_AppendOrdering ==
    (op = "append" /\ wrote = "ok"
        /\ \E i \in DOMAIN arg.ups :
              Le32(arg.ups[i].ts, read_max_ts(file.bytes, Closed).val[1]))
    => status = "panic"

\* C6: after an append that passed its check, decode returns the updates the
\* file held followed by the new ones, and the header counts them all.
C6_AppendSuccess ==
    (op = "decode" /\ wrote = "ok" /\ arg.called /\ arg.ok
        /\ Sorted(stored) /\ NonDecTs(stored))
    => /\ status = "ok"
       /\ ret = stored \o arg.ups
       /\ read_len(file.bytes, Closed).val = <<Len(stored) + Len(arg.ups)>>

\* C7: an encode call that fails leaves the file that was at the path
\* unchanged.
C7_FailureLeavesFile ==
    [][(file.exists /\ op' = "encode" /\ status' = "panic") => file' = file]_vars

\* the batches of the file as encode wrote it, and where each ends
Layout == write_main(stored, checked).out

RECURSIVE EndOf(_, _)
\* the offset after the k-th batch of out
EndOf(out, k) ==
    IF k = 0 THEN MAIN_OFFSET
    ELSE EndOf(out, k - 1) + 9 + 14 * RecCount(out[k].recs)

RECURSIVE CountTo(_, _)
\* the number of delta records in the first k batches of out
CountTo(out, k) ==
    IF k = 0 THEN 0 ELSE CountTo(out, k - 1) + RecCount(out[k].recs)

\* C8: decode of a file that encode wrote and that was cut in its main
\* section: cut where a flag byte is expected, it returns the updates of the
\* batches before the cut (none when the main section is empty); cut inside
\* a batch, it fails and returns nothing.
C8_EndOfDataOrTruncation ==
    (op = "decode" /\ wrote = "ok") =>
       IF \E k \in 0..Len(Layout) : Len(file.bytes) = EndOf(Layout, k)
       THEN LET k == CHOOSE k \in 0..Len(Layout) : Len(file.bytes) = EndOf(Layout, k)
            IN  /\ status = "ok"
                /\ Len(ret) = CountTo(Layout, k)
                /\ (Sorted(stored) /\ NonDecTs(stored))
                      => ret = SubSeq(stored, 1, CountTo(Layout, k))
       ELSE status = "panic" /\ ret = <<>>

\* the file holds one whole batch and is cut inside the second one
C8_Witness ==
    /\ op = "decode"
    /\ wrote = "ok"
    /\ status = "panic"
    /\ Len(Layout) = 2
    /\ Len(file.bytes) > EndOf(Layout, 1) + 9
    /\ Len(file.bytes) < EndOf(Layout, 2)

ScriptSorted(sc) == \A i, j \in DOMAIN sc : i < j => sc[i].u.seq <= sc[j].u.seq

ScriptNonDecTs(sc) == \A i, j \in DOMAIN sc : i < j => Le32(sc[i].u.ts, sc[j].u.ts)

\* C2: while write_main encodes an input sorted by sequence with
\* non-decreasing timestamps, the update it has just buffered lies within
\* 65535 timestamp units and 255 sequence units of the current reference.
C2_DeltaInRange ==
    (enc.pc = "loop" /\ enc.elem # <<>>
        /\ ScriptSorted(enc.script) /\ ScriptNonDecTs(enc.script))
    => /\ Within(enc.elem[1].ts, enc.st.ref_ts, TS_SPAN)
       /\ enc.elem[1].seq - enc.st.ref_seq \in 0..(SEQ_SPAN - 1)

\* line 145 with the guard applied to both overflow checks
GuardedCond(st, elem) ==
    st.count # 0 /\ (\/ Le32(Add32(st.ref_ts, TS_SPAN).val, elem.ts)
                     \/ elem.seq >= (st.ref_seq + SEQ_SPAN) % U16)

\* C9: on a sorted input the condition of line 145 and the fully
\* parenthesised one agree before every update, and no reference with
\* batch_len 0 is written.
C9_GuardBothChecks ==
    (enc.pc \in {"loop", "done"} /\ ScriptSorted(enc.script)) =>
       /\ (enc.pc = "loop" /\ enc.r <= Len(enc.script)
              /\ ~CondPanics(enc.st, enc.script[enc.r].u, checked))
          => (NewBatch(enc.st, enc.script[enc.r].u)
                 <=> GuardedCond(enc.st, enc.script[enc.r].u))
       /\ \A i \in DOMAIN enc.st.out : enc.st.out[i].len > 0

RECURSIVE SumLen(_)
SumLen(out) ==
    IF out = <<>> THEN 0 ELSE SumLen(SubSeq(out, 1, Len(out) - 1)) + out[Len(out)].len

\* C10: when write_main has written a sorted input, every reference's
\* batch_len is the number of delta records written after it, and the
\* batch_len values sum to the number of input updates.
C10_BatchLen ==
    (enc.pc = "done" /\ ScriptSorted(enc.script)) =>
       /\ \A i \in DOMAIN enc.st.out :
             enc.st.out[i].len = RecCount(enc.st.out[i].recs)
       /\ SumLen(enc.st.out) = ScriptLen(enc.script)

=============================================================================
